---- MODULE Spec2Model ----
(***************************************************************************)
(* Model of the batch pipeline of stock-prediction-app:                    *)
(*   clean_data.py          clean_data(input_path, output_path, logger)    *)
(*   feature_engineering.py engineer_features(input_path, output_path, ..) *)
(*                                                                         *)
(* A CSV file is a record [exists, header, rows]; a row maps the column     *)
(* names to cells.  A cell is a record [k, v]:                             *)
(*   k = "num"      a number, v its value                                  *)
(*   k = "na"       an empty field / NaN / NaT                             *)
(*   k = "str"      text that is neither a number nor a date               *)
(*   k = "sym"      a ticker symbol; v is its rank in lexicographic order  *)
(*   k = "datestr"  the text of a date, v the day it denotes               *)
(*   k = "date"     a parsed Timestamp (datetime64), v the day             *)
(* Derived columns hold exact rationals in a fixed encoding:               *)
(*   Return_1d      v = Scale * (close[i] / close[i-1] - 1)                *)
(*   MA_5d, MA_10d  v = window * mean  (the window sum)                    *)
(*   Volatility_10d v = n*(n-1) * Scale^2 * std^2, n the window            *)
(* (std >= 0, so std and this value determine each other).                 *)
(***************************************************************************)
EXTENDS Integers, Sequences, FiniteSets, TLC

VARIABLES
    rawCsv,        \* the file at clean_data's --input
    cleanExit,     \* how the run of clean_data on rawCsv ended ("none": not run)
    cleanedCsv,    \* the file at clean_data's --output / engineer_features' --input
    againExit,     \* how a second run of clean_data, on cleanedCsv, ended
    againCsv,      \* the file that second run wrote
    featExit,      \* how the run of engineer_features on cleanedCsv ended
    final_df,      \* engineer_features' final_df before its dropna()
    featuredCsv,   \* the file at engineer_features' --output
    quicksortTies, \* what numpy's quicksort did with equal keys in that run
    appends        \* how many times the cleaned file was appended to by hand

vars == <<rawCsv, cleanExit, cleanedCsv, againExit, againCsv, featExit,
          final_df, featuredCsv, quicksortTies, appends>>

----------------------------------------------------------------------------
(* Bounds of the model *)

MaxRawRows == 2
MaxDefects == 1
MaxChunks == 3

(* Program constants *)

MA_SHORT == 5
MA_LONG == 10
VOL_WINDOW == 10

----------------------------------------------------------------------------
(* Cells *)

Num(n) == [k |-> "num", v |-> n]
NA == [k |-> "na", v |-> 0]
Junk == [k |-> "str", v |-> 0]
Sym(t) == [k |-> "sym", v |-> t]
DateStr(d) == [k |-> "datestr", v |-> d]
Timestamp(d) == [k |-> "date", v |-> d]

IsNA(c) == c.k = "na"

price_cols == <<"Price_Open", "Price_Close", "Price_High", "Price_Low", "Volume">>

RawColumns == {"TICKER", "DATE", "Price_Open", "Price_Close", "Price_High",
               "Price_Low", "Volume"}

FeatureColumns == {"Return_1d", "MA_5d", "MA_10d", "Volatility_10d"}

NoFile == [header |-> FALSE, rows |-> <<>>, exists |-> FALSE]
File(rows) == [header |-> TRUE, rows |-> rows, exists |-> TRUE]
ZeroByteFile == [header |-> FALSE, rows |-> <<>>, exists |-> TRUE]

----------------------------------------------------------------------------
(* pandas operations used by both stages *)

\* pd.read_csv: a missing file or a file without a header line raises.
read_csv_raises(file) == ~file.exists \/ ~file.header

\* DataFrame.dropna(): keep the rows in which no cell is NaN/NaT.
dropna(df) == SelectSeq(df, LAMBDA r : \A c \in DOMAIN r : ~IsNA(r[c]))

\* pd.to_datetime on a cell of the DATE column.
to_datetime(c) == IF c.k = "datestr" THEN Timestamp(c.v) ELSE c

\* pd.to_datetime called after dropna(): only the rows without a missing
\* field are parsed.
to_datetime_raises_after_dropna(df) ==
    \E i \in 1..Len(df) :
        df[i]["DATE"].k = "str" /\ \A c \in DOMAIN df[i] : df[i][c].k # "na"

\* pd.to_datetime raises when some text of the column is not a date.
to_datetime_raises(df) == \E i \in 1..Len(df) : df[i]["DATE"].k = "str"

parse_dates(df) ==
    [i \in 1..Len(df) |-> [df[i] EXCEPT !["DATE"] = to_datetime(@)]]

\* DataFrame.to_csv: a Timestamp is written as its ISO text.
to_csv_cell(c) == IF c.k = "date" THEN DateStr(c.v) ELSE c

to_csv(df) ==
    File([i \in 1..Len(df) |-> [c \in DOMAIN df[i] |-> to_csv_cell(df[i][c])]])

\* Order of two rows on the key columns `by`, most significant first.
RECURSIVE KeyLess(_, _, _)
KeyLess(r1, r2, by) ==
    IF by = <<>> THEN FALSE
    ELSE LET c == Head(by) IN
         \/ r1[c].v < r2[c].v
         \/ r1[c].v = r2[c].v /\ KeyLess(r1, r2, Tail(by))

InsertAt(r, s, p) == SubSeq(s, 1, p) \o <<r>> \o SubSeq(s, p + 1, Len(s))

\* Insert r behind every row of the sorted s whose key is not greater.
InsertAfterEqual(r, s, by) ==
    InsertAt(r, s, Cardinality({i \in 1..Len(s) : ~KeyLess(r, s[i], by)}))

\* Insert r in front of every row of the sorted s whose key is not smaller.
InsertBeforeEqual(r, s, by) ==
    InsertAt(r, s, Cardinality({i \in 1..Len(s) : KeyLess(s[i], r, by)}))

\* A stable sort of df on the key columns `by`: rows i..Len(df) inserted, in
\* input order, into the sorted rows 1..i-1.
RECURSIVE StableSortFrom(_, _, _, _)
StableSortFrom(df, by, i, sorted) ==
    IF i > Len(df) THEN sorted
    ELSE StableSortFrom(df, by, i + 1, InsertAfterEqual(df[i], sorted, by))

StableSort(df, by) == StableSortFrom(df, by, 1, <<>>)

\* A sort that reverses the input order of rows with equal keys.
RECURSIVE ReversingSortFrom(_, _, _, _)
ReversingSortFrom(df, by, i, sorted) ==
    IF i > Len(df) THEN sorted
    ELSE ReversingSortFrom(df, by, i + 1, InsertBeforeEqual(df[i], sorted, by))

ReversingSort(df, by) == ReversingSortFrom(df, by, 1, <<>>)

----------------------------------------------------------------------------
(* clean_data *)

\* read_csv gives a column the object dtype (its cells Python strings) when
\* some field of it is not numeric.
HasText(df, col) == \E i \in 1..Len(df) : df[i][col].k = "str"

\* df[df[col] >= 0]: the comparison off by one.
nonnegative(df, col) == SelectSeq(df, LAMBDA r : r[col].k = "num" /\ r[col].v >= 0)

\* df[df[col] > 0]
positive(df, col) == SelectSeq(df, LAMBDA r : r[col].k = "num" /\ r[col].v > 0)

\* The loop over price_cols, from column j on.  `text` is the set of columns
\* read as text (object dtype): their comparison with 0 is made element by
\* element and raises TypeError at the first string, so it raises unless no
\* row is left in the frame.
RECURSIVE filter_prices(_, _, _)
filter_prices(df, j, text) ==
    IF j > Len(price_cols) THEN [raised |-> FALSE, df |-> df]
    ELSE IF price_cols[j] \in text /\ df # <<>>
         THEN [raised |-> TRUE, df |-> <<>>]
    ELSE filter_prices(positive(df, price_cols[j]), j + 1, text)

\* df.sort_values(by=['DATE', 'TICKER']): the keys in the other order.
sort_by_date_ticker(df) == StableSort(df, <<"DATE", "TICKER">>)

\* A sort on (TICKER, DATE) that is not stable.
sort_by_ticker_date_unstable(df) == ReversingSort(df, <<"TICKER", "DATE">>)

\* df.sort_values(by=['TICKER', 'DATE']): a sort on several keys is pandas'
\* lexsort, which is stable.
sort_by_ticker_date(df) == StableSort(df, <<"TICKER", "DATE">>)

\* The whole of clean_data on `file`: [exit, out].  exit is "ok", "exit1"
\* (sys.exit(1)) or "TypeError" (uncaught); out is the file written, NoFile
\* when the run ends before to_csv.
clean_data(file) ==
    IF read_csv_raises(file) THEN [exit |-> "exit1", out |-> NoFile]
    ELSE IF to_datetime_raises(file.rows) THEN [exit |-> "exit1", out |-> NoFile]
    ELSE LET df0 == parse_dates(file.rows)
             text == {price_cols[j] : j \in {i \in 1..Len(price_cols) :
                                              HasText(df0, price_cols[i])}}
             f == filter_prices(dropna(df0), 1, text)
         IN IF f.raised THEN [exit |-> "TypeError", out |-> NoFile]
            ELSE [exit |-> "ok", out |-> to_csv(sort_by_ticker_date(f.df))]

----------------------------------------------------------------------------
(* engineer_features *)

Closes == {10, 11, 12}

RECURSIVE Product(_)
Product(S) == IF S = {} THEN 1
              ELSE LET x == CHOOSE y \in S : TRUE IN x * Product(S \ {x})

\* Every close of the model divides Scale, so Scale * (c / p - 1) is an integer.
Scale == Product(Closes)

Column(df, col) == [i \in 1..Len(df) |-> df[i][col]]

\* Series.pct_change().fillna(0): the first return 0 instead of NaN.
pct_change_filled(xs) ==
    [i \in 1..Len(xs) |->
        IF i = 1 \/ xs[i].k # "num" \/ xs[i - 1].k # "num" THEN Num(0)
        ELSE Num((Scale * (xs[i].v - xs[i - 1].v)) \div xs[i - 1].v)]

\* Series.pct_change(): x[i] / x[i-1] - 1, NaN at the first position.
\* (Closes of a cleaned file are numbers > 0; a NaN close gives NaN here.)
pct_change(xs) ==
    [i \in 1..Len(xs) |->
        IF i = 1 \/ xs[i].k # "num" \/ xs[i - 1].k # "num" THEN NA
        ELSE Num((Scale * (xs[i].v - xs[i - 1].v)) \div xs[i - 1].v)]

\* The sliding window of pandas' rolling aggregations after position i:
\* observation i is added, observation i - w leaves; NaN observations are
\* not counted.
add_obs(s, c) ==
    IF c.k # "num" THEN s
    ELSE [nobs |-> s.nobs + 1, sum |-> s.sum + c.v, sumsq |-> s.sumsq + c.v * c.v]

remove_obs(s, c) ==
    IF c.k # "num" THEN s
    ELSE [nobs |-> s.nobs - 1, sum |-> s.sum - c.v, sumsq |-> s.sumsq - c.v * c.v]

\* The windows after positions i..Len(xs), given those after 1..i-1.
RECURSIVE roll_states(_, _, _, _)
roll_states(xs, w, i, done) ==
    IF i > Len(xs) THEN done
    ELSE LET prev == IF i = 1 THEN [nobs |-> 0, sum |-> 0, sumsq |-> 0]
                     ELSE done[i - 1]
             a == add_obs(prev, xs[i])
         IN roll_states(xs, w, i + 1,
                        Append(done, IF i > w THEN remove_obs(a, xs[i - w]) ELSE a))

\* Series.rolling(window=w, min_periods=1).mean(), in the encoding of a
\* window of w observations.
rolling_mean_min_periods_1(xs, w) ==
    LET s == roll_states(xs, w, 1, <<>>)
    IN [i \in 1..Len(xs) |-> IF s[i].nobs >= 1 THEN Num(s[i].sum) ELSE NA]

\* Series.rolling(window=w).mean(): min_periods defaults to w.
rolling_mean(xs, w) ==
    LET s == roll_states(xs, w, 1, <<>>)
    IN [i \in 1..Len(xs) |-> IF s[i].nobs >= w THEN Num(s[i].sum) ELSE NA]

\* Series.rolling(window=w).std(): ddof = 1, min_periods defaults to w.
rolling_std(xs, w) ==
    LET s == roll_states(xs, w, 1, <<>>)
    IN [i \in 1..Len(xs) |->
           IF s[i].nobs >= w /\ s[i].nobs > 1
           THEN Num(s[i].nobs * s[i].sumsq - s[i].sum * s[i].sum) ELSE NA]

\* No sort: the group in the order of the input file.
unsorted_group(group, ties) == group

\* group.sort_values('DATE'): a sort on one key is numpy's quicksort, which
\* orders rows of equal DATE as the build happens to.
sort_by_date(group, ties) ==
    IF ties = "stable" THEN StableSort(group, <<"DATE">>)
    ELSE ReversingSort(group, <<"DATE">>)

\* The body of the loop over the groups: the frame appended for one group.
group_features(group0, ties) ==
    LET group == sort_by_date(group0, ties)
        Return_1d == pct_change(Column(group, "Price_Close"))
        MA_5d == rolling_mean(Column(group, "Price_Close"), MA_SHORT)
        MA_10d == rolling_mean(Column(group, "Price_Close"), MA_LONG)
        Volatility_10d == rolling_std(Return_1d, VOL_WINDOW)
    IN [i \in 1..Len(group) |->
           [c \in RawColumns \cup FeatureColumns |->
               CASE c = "Return_1d" -> Return_1d[i]
                 [] c = "MA_5d" -> MA_5d[i]
                 [] c = "MA_10d" -> MA_10d[i]
                 [] c = "Volatility_10d" -> Volatility_10d[i]
                 [] OTHER -> group[i][c]]]

\* The keys of df.groupby('TICKER'): the tickers present, NaN excluded.
group_keys(df) == {df[i]["TICKER"].v : i \in {j \in 1..Len(df) : ~IsNA(df[j]["TICKER"])}}

\* The whole frame instead of the group.
whole_frame(df, t) == df

\* The rows of one group, in the order of the frame.
get_group(df, t) == SelectSeq(df, LAMBDA r : ~IsNA(r["TICKER"]) /\ r["TICKER"].v = t)

\* feature_frames after the loop, concatenated: groupby yields the groups in
\* ascending order of the key.
RECURSIVE concat_frames(_, _, _)
concat_frames(df, keys, ties) ==
    IF keys = {} THEN <<>>
    ELSE LET t == CHOOSE x \in keys : \A y \in keys : x <= y
         IN group_features(get_group(df, t), ties)
            \o concat_frames(df, keys \ {t}, ties)

\* The whole of engineer_features on `file`: [exit, out].  exit is "ok",
\* "exit1" (sys.exit(1)) or "ValueError" (uncaught: pd.to_datetime outside
\* any try, pd.concat of an empty list).
engineer_features(file, ties) ==
    IF read_csv_raises(file)
    THEN [exit |-> "exit1", final |-> <<>>, out |-> NoFile]
    ELSE IF to_datetime_raises(file.rows)
    THEN [exit |-> "ValueError", final |-> <<>>, out |-> NoFile]
    ELSE LET df == parse_dates(file.rows)
             final == concat_frames(df, group_keys(df), ties)
         IN IF group_keys(df) = {}
            THEN [exit |-> "ValueError", final |-> <<>>, out |-> NoFile]
            ELSE [exit |-> "ok", final |-> final, out |-> to_csv(dropna(final))]

----------------------------------------------------------------------------
(* The input files *)

Tickers == {1, 2}
QuicksortTies == {"stable", "reversed"}

\* A bar as collect_data.py writes it: the seven columns, all fields valid.
\* Volume numbers the rows of a file, so that every row can be told apart.
Bar(t, date, close, n) ==
    [c \in RawColumns |->
        CASE c = "TICKER" -> Sym(t)
          [] c = "DATE" -> date
          [] c = "Price_Close" -> Num(close)
          [] c = "Volume" -> Num(100 + n)
          [] OTHER -> Num(close)]

\* The defects of a raw field: empty, not a number, zero, negative.
Defects ==
    {<<price_cols[j], c>> : j \in 1..Len(price_cols), c \in {NA, Junk, Num(0)}}
        \cup {<<"Price_Close", Num(-1)>>, <<"Volume", Num(-5)>>, <<"TICKER", NA>>}

\* The ticker and the DATE field of a raw row: a date, empty, or not a date.
RawKeys ==
    {<<1, DateStr(1)>>, <<1, DateStr(2)>>, <<2, DateStr(1)>>, <<1, NA>>, <<1, Junk>>}

IsDefect(col, c) ==
    IF col = "TICKER" THEN c.k # "sym"
    ELSE IF col = "DATE" THEN FALSE
    ELSE c.k # "num" \/ c.v <= 0

RECURSIVE SeqSum(_)
SeqSum(s) == IF s = <<>> THEN 0 ELSE Head(s) + SeqSum(Tail(s))

CountDefects(rows) ==
    SeqSum([i \in 1..Len(rows) |->
               Cardinality({c \in RawColumns : IsDefect(c, rows[i][c])})])

\* The dates of ticker t's rows.
DatesOf(rows, t) ==
    {rows[i]["DATE"].v : i \in {j \in 1..Len(rows) : rows[j]["TICKER"] = Sym(t)}}

MaxDate(rows, t) ==
    IF DatesOf(rows, t) = {} THEN 0
    ELSE CHOOSE d \in DatesOf(rows, t) : \A e \in DatesOf(rows, t) : e <= d

ClosePath == <<10, 11, 12, 11, 10, 12, 10, 11, 12, 12, 11, 10, 10>>

\* The close of ticker t on day d.
PathClose(t, d) == ClosePath[((d - 1 + (t - 1) * 4) % Len(ClosePath)) + 1]

\* k consecutive days of ticker t, following its latest day in `rows`.
Block(rows, t, k) ==
    [j \in 1..k |->
        Bar(t, DateStr(MaxDate(rows, t) + j), PathClose(t, MaxDate(rows, t) + j),
            Len(rows) + j)]

----------------------------------------------------------------------------
(* The runs *)

Init ==
    /\ rawCsv \in {File(<<>>), ZeroByteFile}
    /\ cleanExit = "none"
    /\ cleanedCsv = NoFile
    /\ againExit = "none"
    /\ againCsv = NoFile
    /\ featExit = "none"
    /\ final_df = <<>>
    /\ featuredCsv = NoFile
    /\ quicksortTies = "none"
    /\ appends = 0

\* One more row in the raw file, with at most one defective field besides
\* its DATE.
AppendRawRow ==
    /\ cleanExit = "none"
    /\ rawCsv.header
    /\ Len(rawCsv.rows) < MaxRawRows
    /\ \E key \in RawKeys :
       \E d \in Defects \cup {<<"DATE", key[2]>>} :
          LET bar == Bar(key[1], key[2], 10 + key[1], Len(rawCsv.rows) + 1)
              row == [bar EXCEPT ![d[1]] = d[2]]
          IN /\ CountDefects(Append(rawCsv.rows, row)) <= MaxDefects
             /\ rawCsv' = File(Append(rawCsv.rows, row))
    /\ UNCHANGED <<cleanExit, cleanedCsv, againExit, againCsv, featExit,
                   final_df, featuredCsv, quicksortTies, appends>>

\* python clean_data.py --input raw --output cleaned
CleanData ==
    /\ cleanExit = "none"
    /\ LET run == clean_data(rawCsv)
       IN /\ cleanExit' = run.exit
          /\ cleanedCsv' = run.out
    /\ UNCHANGED <<rawCsv, againExit, againCsv, featExit, final_df, featuredCsv,
                   quicksortTies, appends>>

\* python clean_data.py --input cleaned --output again
CleanAgain ==
    /\ cleanExit = "ok"
    /\ againExit = "none"
    /\ LET run == clean_data(cleanedCsv)
       IN /\ againExit' = run.exit
          /\ againCsv' = run.out
    /\ UNCHANGED <<rawCsv, cleanExit, cleanedCsv, featExit, final_df, featuredCsv,
                   quicksortTies, appends>>

\* python feature_engineering.py --input cleaned --output featured
EngineerFeatures ==
    /\ featExit = "none"
    /\ \E ties \in QuicksortTies :
          LET run == engineer_features(cleanedCsv, ties)
          IN /\ featExit' = run.exit
             /\ final_df' = run.final
             /\ featuredCsv' = run.out
             /\ quicksortTies' = ties
    /\ UNCHANGED <<rawCsv, cleanExit, cleanedCsv, againExit, againCsv, appends>>

Next ==
    \/ AppendRawRow
    \/ CleanData
    \/ CleanAgain
    \/ cleanExit # "none" /\ EngineerFeatures

Spec == Init /\ [][Next]_vars

\* The feature stage on its own: any file of valid bars at its --input.
FeatInit ==
    /\ rawCsv = NoFile
    /\ cleanExit = "none"
    /\ cleanedCsv = File(<<>>)
    /\ againExit = "none"
    /\ againCsv = NoFile
    /\ featExit = "none"
    /\ final_df = <<>>
    /\ featuredCsv = NoFile
    /\ quicksortTies = "none"
    /\ appends = 0

\* More rows in the cleaned file: consecutive days of a ticker, in date order
\* and behind its latest day; one day, or as many as the longest window, or
\* one more.
AppendDays ==
    /\ featExit = "none"
    /\ appends < MaxChunks
    /\ \E t \in Tickers, k \in {1, VOL_WINDOW, VOL_WINDOW + 1} :
          cleanedCsv' = File(cleanedCsv.rows \o Block(cleanedCsv.rows, t, k))
    /\ appends' = appends + 1
    /\ UNCHANGED <<rawCsv, cleanExit, againExit, againCsv, featExit, final_df,
                   featuredCsv, quicksortTies>>

\* A revised close, different from the one it revises.
Revised(close) == IF close + 1 \in Closes THEN close + 1 ELSE close - 2

\* One more row in the cleaned file, out of date order: a second bar for the
\* latest or the first day of the ticker of the last row, with another close.
AppendLateDay ==
    /\ featExit = "none"
    /\ appends < MaxChunks
    /\ cleanedCsv.rows # <<>>
    /\ LET t == cleanedCsv.rows[Len(cleanedCsv.rows)]["TICKER"].v
       IN \E d \in {1, MaxDate(cleanedCsv.rows, t)} :
             cleanedCsv' = File(Append(cleanedCsv.rows,
                                       Bar(t, DateStr(d), Revised(PathClose(t, d)),
                                           Len(cleanedCsv.rows) + 1)))
    /\ appends' = appends + 1
    /\ UNCHANGED <<rawCsv, cleanExit, againExit, againCsv, featExit, final_df,
                   featuredCsv, quicksortTies>>

FeatNext ==
    \/ AppendDays
    \/ AppendLateDay
    \/ EngineerFeatures

FeatSpec == FeatInit /\ [][FeatNext]_vars

----------------------------------------------------------------------------
(* Properties of clean_data, checked under Spec *)

TickerDateLeq(a, b) ==
    \/ a["TICKER"].v < b["TICKER"].v
    \/ a["TICKER"].v = b["TICKER"].v /\ a["DATE"].v <= b["DATE"].v

SameTickerDate(a, b) ==
    a["TICKER"].v = b["TICKER"].v /\ a["DATE"].v = b["DATE"].v

\* The position in the raw file of the row written as r (Volume tells the
\* rows of a file apart).
RawIndex(r) ==
    CHOOSE k \in 1..Len(rawCsv.rows) : rawCsv.rows[k]["Volume"] = r["Volume"]

HasBadDate(rows) == \E i \in 1..Len(rows) : rows[i]["DATE"].k = "str"

NonPositive(r) ==
    \E j \in 1..Len(price_cols) : r[price_cols[j]].k = "num" /\ r[price_cols[j]].v <= 0

\* C1: when clean_data completes and writes its output, no row of the output
\* has a missing field, and Price_Open, Price_Close, Price_High, Price_Low and
\* Volume of every row are numbers greater than zero.
C1_CleanOutputValid ==
    cleanExit = "ok" =>
        /\ cleanedCsv.exists
        /\ \A i \in 1..Len(cleanedCsv.rows) :
              /\ \A c \in RawColumns : ~IsNA(cleanedCsv.rows[i][c])
              /\ \A j \in 1..Len(price_cols) :
                    /\ cleanedCsv.rows[i][price_cols[j]].k = "num"
                    /\ cleanedCsv.rows[i][price_cols[j]].v > 0

\* C1 witness: a run that completed on a raw file of a valid row and a row
\* with a value <= 0, and wrote the valid row only.
C1_Witness ==
    /\ cleanExit = "ok"
    /\ Len(rawCsv.rows) = 2
    /\ \E i \in 1..2 : NonPositive(rawCsv.rows[i])
    /\ Len(cleanedCsv.rows) = 1

\* C2: the cleaned output is sorted by (TICKER, DATE) ascending, and rows of
\* equal (TICKER, DATE) keep their relative order from the raw input.
C2_CleanOutputSorted ==
    cleanExit = "ok" =>
        \A i, j \in 1..Len(cleanedCsv.rows) :
            i < j =>
                /\ TickerDateLeq(cleanedCsv.rows[i], cleanedCsv.rows[j])
                /\ SameTickerDate(cleanedCsv.rows[i], cleanedCsv.rows[j])
                       => RawIndex(cleanedCsv.rows[i]) < RawIndex(cleanedCsv.rows[j])

\* C2 witness: an output of two rows of the same ticker and date.
C2_Witness ==
    /\ cleanExit = "ok"
    /\ Len(cleanedCsv.rows) = 2
    /\ SameTickerDate(cleanedCsv.rows[1], cleanedCsv.rows[2])

\* C3: a run of clean_data on a raw file with a DATE that cannot be parsed, in
\* whatever row, ends in sys.exit(1) and writes no output.
C3_DateFailureAborts ==
    (cleanExit # "none" /\ HasBadDate(rawCsv.rows)) =>
        cleanExit = "exit1" /\ ~cleanedCsv.exists

\* C3 witness: the run ended on a raw file whose unparseable DATE is in a row
\* that the null filter or the positivity filter would drop.
C3_Witness ==
    /\ cleanExit = "exit1"
    /\ \E i \in 1..Len(rawCsv.rows) :
          /\ rawCsv.rows[i]["DATE"].k = "str"
          /\ \E c \in RawColumns : IsDefect(c, rawCsv.rows[i][c])
                                    /\ rawCsv.rows[i][c].k # "str"

\* C4: on a raw file whose DATE column parses, clean_data completes normally
\* whatever the price and volume fields hold.
C4_NeverFailsOnBadRows ==
    (cleanExit # "none" /\ rawCsv.header /\ ~HasBadDate(rawCsv.rows)) =>
        cleanExit = "ok"

\* C5: a raw file of zero data rows run through clean_data and then
\* engineer_features gives an empty cleaned and an empty featured output, and
\* neither run fails.
C5_EmptyInputGivesEmptyOutputs ==
    (rawCsv = File(<<>>) /\ cleanExit # "none" /\ featExit # "none") =>
        /\ cleanExit = "ok"
        /\ cleanedCsv = File(<<>>)
        /\ featExit = "ok"
        /\ featuredCsv = File(<<>>)

\* C8: clean_data run on its own output completes and writes the same rows
\* in the same order.
C8_CleanIdempotent ==
    againExit # "none" => againExit = "ok" /\ againCsv = cleanedCsv

\* C8 witness: the second run ended on an output of two rows of the same
\* ticker and date.
C8_Witness ==
    /\ againExit = "ok"
    /\ Len(againCsv.rows) = 2
    /\ SameTickerDate(againCsv.rows[1], againCsv.rows[2])

----------------------------------------------------------------------------
(* Properties of engineer_features, checked under FeatSpec *)

RowsOf(rows, t) == SelectSeq(rows, LAMBDA r : r["TICKER"].v = t)

Ids(rows) == {rows[i]["Volume"].v : i \in 1..Len(rows)}

TickersIn(rows) == {rows[i]["TICKER"].v : i \in 1..Len(rows)}

RawPart(r) == [c \in RawColumns |-> r[c]]

\* C6: a ticker with n rows in a valid cleaned input has max(0, n - 10) rows
\* in the output of engineer_features, and the rows removed are its 10
\* earliest-dated rows.
C6_MinimumHistory ==
    featExit = "ok" =>
        \A t \in Tickers :
            LET inRows == RowsOf(cleanedCsv.rows, t)
                outRows == RowsOf(featuredCsv.rows, t)
                n == Len(inRows)
            IN /\ Len(outRows) = IF n > 10 THEN n - 10 ELSE 0
               /\ Cardinality(Ids(outRows)) = Len(outRows)
               /\ Ids(outRows) \subseteq Ids(inRows)
               /\ \A i \in 1..Len(inRows), j \in 1..Len(outRows) :
                     inRows[i]["Volume"].v \notin Ids(outRows)
                         => inRows[i]["DATE"].v <= outRows[j]["DATE"].v

\* C6 witness: a ticker with exactly 11 rows and 1 output row, beside a ticker
\* with some rows, at most 10, and no output row.
C6_Witness ==
    /\ featExit = "ok"
    /\ Len(RowsOf(cleanedCsv.rows, 1)) = 11
    /\ Len(RowsOf(featuredCsv.rows, 1)) = 1
    /\ Len(RowsOf(cleanedCsv.rows, 2)) \in 1..10
    /\ Len(RowsOf(featuredCsv.rows, 2)) = 0

\* C7: the featured rows of each ticker T, before and after the final
\* dropna, are those engineer_features produces from T's rows alone.
C7_TickerIndependence ==
    featExit = "ok" =>
        \A t \in TickersIn(cleanedCsv.rows) :
            LET alone == engineer_features(File(RowsOf(cleanedCsv.rows, t)),
                                           quicksortTies)
            IN /\ alone.exit = "ok"
               /\ alone.final = RowsOf(final_df, t)
               /\ alone.out.rows = RowsOf(featuredCsv.rows, t)

\* C7 witness: an input with a row of ticker 2 between two rows of ticker 1,
\* and featured rows of ticker 1 in the output.
C7_Witness ==
    /\ featExit = "ok"
    /\ \E i, j, k \in 1..Len(cleanedCsv.rows) :
          /\ i < j /\ j < k
          /\ cleanedCsv.rows[i]["TICKER"].v = 1
          /\ cleanedCsv.rows[j]["TICKER"].v = 2
          /\ cleanedCsv.rows[k]["TICKER"].v = 1
    /\ RowsOf(featuredCsv.rows, 1) # <<>>

\* The sum of f(k) over k in a..b.
RECURSIVE RangeSum(_, _, _)
RangeSum(f(_), a, b) == IF a > b THEN 0 ELSE f(a) + RangeSum(f, a + 1, b)

\* C9: in a ticker's partition in date order, before the final drop, at the
\* 0-based index i: Return_1d is defined iff i >= 1, and is
\* close[i]/close[i-1] - 1; MA_5d is defined iff i >= 4, and is the mean of
\* close[i-4..i]; MA_10d is defined iff i >= 9, and is the mean of
\* close[i-9..i]; Volatility_10d is defined iff i >= 10, and is the sample
\* standard deviation of Return_1d[i-9..i].  (Positions below are 1-based.)
C9_TrailingWindows ==
    featExit = "ok" =>
        \A t \in TickersIn(cleanedCsv.rows) :
            LET g == RowsOf(final_df, t)
                close(k) == g[k]["Price_Close"].v
                ret(k) == (Scale * (close(k) - close(k - 1))) \div close(k - 1)
                retsq(k) == ret(k) * ret(k)
            IN /\ Len(g) = Len(RowsOf(cleanedCsv.rows, t))
               /\ \A p \in 1..Len(g) :
                     /\ p > 1 => g[p - 1]["DATE"].v <= g[p]["DATE"].v
                     /\ IsNA(g[p]["Return_1d"]) <=> p < 2
                     /\ p >= 2 => g[p]["Return_1d"] = Num(ret(p))
                     /\ IsNA(g[p]["MA_5d"]) <=> p < 5
                     /\ p >= 5 => g[p]["MA_5d"] = Num(RangeSum(close, p - 4, p))
                     /\ IsNA(g[p]["MA_10d"]) <=> p < 10
                     /\ p >= 10 => g[p]["MA_10d"] = Num(RangeSum(close, p - 9, p))
                     /\ IsNA(g[p]["Volatility_10d"]) <=> p < 11
                     /\ p >= 11 =>
                           g[p]["Volatility_10d"] =
                               Num(10 * RangeSum(retsq, p - 9, p)
                                   - RangeSum(ret, p - 9, p) * RangeSum(ret, p - 9, p))

\* C9 witness: ticker 1 with the closes 10, 11, 12, 11, 10 on its first five
\* days, its rows behind rows of ticker 2 in the input: Return_1d of the
\* second day is 11/10 - 1, MA_5d of the fifth is 54/5 = 10.8, the tenth day
\* has an MA_10d and no volatility, the eleventh has one.
C9_Witness ==
    /\ featExit = "ok"
    /\ cleanedCsv.rows[1]["TICKER"].v = 2
    /\ LET g == RowsOf(final_df, 1)
       IN /\ Len(g) >= 11
          /\ g[2]["Return_1d"] = Num(Scale \div 10)
          /\ g[5]["MA_5d"] = Num(54)
          /\ ~IsNA(g[10]["MA_10d"])
          /\ IsNA(g[10]["Volatility_10d"])
          /\ ~IsNA(g[11]["Volatility_10d"])

\* C10: the output of engineer_features is grouped by ticker, the groups in
\* ascending order of the ticker, and date-ascending within each ticker; each
\* output row is one input row, its seven fields unchanged, with the four
\* derived fields.
C10_OutputOrder ==
    featExit = "ok" =>
        /\ \A i, j \in 1..Len(featuredCsv.rows) :
              i < j => TickerDateLeq(featuredCsv.rows[i], featuredCsv.rows[j])
        /\ Cardinality(Ids(featuredCsv.rows)) = Len(featuredCsv.rows)
        /\ \A i \in 1..Len(featuredCsv.rows) :
              /\ DOMAIN featuredCsv.rows[i] = RawColumns \cup FeatureColumns
              /\ \E k \in 1..Len(cleanedCsv.rows) :
                    cleanedCsv.rows[k] = RawPart(featuredCsv.rows[i])
              /\ \A c \in FeatureColumns : featuredCsv.rows[i][c].k = "num"

\* C10 witness: an input that starts with ticker 2 and has a row of ticker 1
\* out of date order, and an output with rows of both tickers.
C10_Witness ==
    /\ featExit = "ok"
    /\ cleanedCsv.rows[1]["TICKER"].v = 2
    /\ \E i, j \in 1..Len(cleanedCsv.rows) :
          /\ i < j
          /\ cleanedCsv.rows[i]["TICKER"].v = 1
          /\ cleanedCsv.rows[j]["TICKER"].v = 1
          /\ cleanedCsv.rows[i]["DATE"].v > cleanedCsv.rows[j]["DATE"].v
    /\ TickersIn(featuredCsv.rows) = {1, 2}

====
